---- MODULE Spec2Model ----
(***************************************************************************)
(* Per-user fixed-window rate limiter (task-3 server): the RateLimiter     *)
(* class (checkLimit, getStatus, reset, cleanup) and the Express           *)
(* middleware and routes built on it.                                      *)
(*                                                                         *)
(* Time is in milliseconds, as Date.now() is; the clock advances in steps  *)
(* of TickMs.  The Map userRequests is a function whose DOMAIN is the set  *)
(* of keys that have an entry.                                             *)
(***************************************************************************)
EXTENDS Integers, Sequences, FiniteSets, TLC

\* ------------------------------------------------------------------ bounds
MaxLimit == 2
MaxWindowTicks == 2
MaxTicks == 3
TickMs == 500
NumReqs == 3

Keys == {"user-a", "user-b"}

VARIABLES
    maxRequests,   \* this.maxRequests
    windowMs,      \* this.windowMs
    userRequests,  \* this.userRequests: Map<userId, {count, resetTime}>
    now,           \* Date.now()
    lastOp,        \* history: the last store call, its arguments and result
    calls,         \* history: per key, calls of checkLimit since its record began
    adm,           \* history: per key, allowed calls since its record began
    per,           \* history: per key, the earliest window still open
    resetOf,       \* history: per key, what reset() found, until the next checkLimit
    recentAdm,     \* history: per key, times of the allowed calls of the last windowMs
    reqs,          \* the requests to /api/data: what each carries, where it stands
    resp,          \* the JSON body sent last
    exch,          \* the request served in one piece, and its response, until it ends
    shadow         \* history: the Map as it would be had cleanup() never run

vars == <<maxRequests, windowMs, userRequests, now, lastOp, calls, adm, per,
          resetOf, recentAdm, reqs, resp, exch, shadow>>

hist == <<lastOp, calls, adm, per, resetOf, recentAdm>>

Min(a, b) == IF a < b THEN a ELSE b

\* ------------------------------------------------------------- the Map
EmptyMap == [x \in {} |-> 0]

MapHas(m, k) == k \in DOMAIN m

MapSet(m, k, v) == [x \in (DOMAIN m) \cup {k} |-> IF x = k THEN v ELSE m[x]]

MapDelete(m, k) == [x \in (DOMAIN m) \ {k} |-> m[x]]

\* --------------------------------------------------------- RateLimiter
\* mutant: the window is still open at the instant now = resetTime
NoActiveStrict(store, userId, t) ==
    \/ ~MapHas(store, userId)
    \/ t > store[userId].resetTime

\* `!userData || now >= userData.resetTime`
NoActive(store, userId, t) ==
    \/ ~MapHas(store, userId)
    \/ t >= store[userId].resetTime

\* the three returns of checkLimit; each result carries the Map as the call leaves it
\* no record, or window expired: `this.userRequests.set(userId, {count: 1, resetTime})`
Fresh(store, userId, t) ==
    [allowed   |-> TRUE,
     remaining |-> maxRequests - 1,
     resetTime |-> t + windowMs,
     store     |-> MapSet(store, userId, [count |-> 1, resetTime |-> t + windowMs])]

\* window active, below the limit: `userData.count++`, remaining read after it
Counted(store, userId, rem) ==
    [allowed   |-> TRUE,
     remaining |-> rem,
     resetTime |-> store[userId].resetTime,
     store     |-> MapSet(store, userId,
                          [count     |-> store[userId].count + 1,
                           resetTime |-> store[userId].resetTime])]

\* limit exceeded: nothing is written
Rejected(store, userId) ==
    [allowed   |-> FALSE,
     remaining |-> 0,
     resetTime |-> store[userId].resetTime,
     store     |-> store]

\* mutant: `userData.count <= this.maxRequests`
checkLimitLe(store, userId, t) ==
    IF NoActive(store, userId, t) THEN Fresh(store, userId, t)
    ELSE IF store[userId].count <= maxRequests
    THEN Counted(store, userId, maxRequests - (store[userId].count + 1))
    ELSE Rejected(store, userId)

\* mutant: remaining computed before `userData.count++`
checkLimitStaleRemaining(store, userId, t) ==
    IF NoActive(store, userId, t) THEN Fresh(store, userId, t)
    ELSE IF store[userId].count < maxRequests
    THEN Counted(store, userId, maxRequests - store[userId].count)
    ELSE Rejected(store, userId)

\* mutant: a rejected call pushes the window forward
checkLimitExtend(store, userId, t) ==
    IF NoActive(store, userId, t) THEN Fresh(store, userId, t)
    ELSE IF store[userId].count < maxRequests
    THEN Counted(store, userId, maxRequests - (store[userId].count + 1))
    ELSE [allowed   |-> FALSE,
          remaining |-> 0,
          resetTime |-> t + windowMs,
          store     |-> MapSet(store, userId,
                               [count     |-> store[userId].count,
                                resetTime |-> t + windowMs])]

\* mutant: the expiry of the window is not looked at
checkLimitNoExpiry(store, userId, t) ==
    IF ~MapHas(store, userId) THEN Fresh(store, userId, t)
    ELSE IF store[userId].count < maxRequests
    THEN Counted(store, userId, maxRequests - (store[userId].count + 1))
    ELSE Rejected(store, userId)

\* mutant: an admitted call moves the end of the window to now + windowMs
checkLimitSlide(store, userId, t) ==
    IF NoActive(store, userId, t) THEN Fresh(store, userId, t)
    ELSE IF store[userId].count < maxRequests
    THEN [allowed   |-> TRUE,
          remaining |-> maxRequests - (store[userId].count + 1),
          resetTime |-> t + windowMs,
          store     |-> MapSet(store, userId,
                               [count     |-> store[userId].count + 1,
                                resetTime |-> t + windowMs])]
    ELSE Rejected(store, userId)

checkLimit(store, userId, t) ==
    IF NoActive(store, userId, t) THEN Fresh(store, userId, t)
    ELSE IF store[userId].count < maxRequests
    THEN Counted(store, userId, maxRequests - (store[userId].count + 1))
    ELSE Rejected(store, userId)

\* mutant: the status of an absent or expired key is stored
getStatusPersist(store, userId, t) ==
    IF NoActive(store, userId, t)
    THEN [remaining |-> maxRequests,
          resetTime |-> t + windowMs,
          store     |-> MapSet(store, userId, [count |-> 0, resetTime |-> t + windowMs])]
    ELSE [remaining |-> maxRequests - store[userId].count,
          resetTime |-> store[userId].resetTime,
          store     |-> store]

\* mutant: the expiry of the window is not looked at
getStatusNoExpiry(store, userId, t) ==
    IF ~MapHas(store, userId)
    THEN [remaining |-> maxRequests,
          resetTime |-> t + windowMs,
          store     |-> store]
    ELSE [remaining |-> maxRequests - store[userId].count,
          resetTime |-> store[userId].resetTime,
          store     |-> store]

\* mutant: `now > userData.resetTime`, unlike checkLimit
getStatusStrict(store, userId, t) ==
    IF NoActiveStrict(store, userId, t)
    THEN [remaining |-> maxRequests,
          resetTime |-> t + windowMs,
          store     |-> store]
    ELSE [remaining |-> maxRequests - store[userId].count,
          resetTime |-> store[userId].resetTime,
          store     |-> store]

getStatus(store, userId, t) ==
    IF NoActive(store, userId, t)
    THEN [remaining |-> maxRequests,
          resetTime |-> t + windowMs,
          store     |-> store]
    ELSE [remaining |-> maxRequests - store[userId].count,
          resetTime |-> store[userId].resetTime,
          store     |-> store]

\* mutant: `this.userRequests.clear()`
resetClear(store, userId) == EmptyMap

\* mutant: the count is zeroed and the window kept
resetKeepWindow(store, userId) ==
    IF MapHas(store, userId)
    THEN MapSet(store, userId, [count |-> 0, resetTime |-> store[userId].resetTime])
    ELSE store

reset(store, userId) == MapDelete(store, userId)

\* mutant: `now > data.resetTime`
cleanupStrict(store, t) ==
    [x \in {k \in DOMAIN store : ~(t > store[k].resetTime)} |-> store[x]]

\* mutant: the comparison turned round, `now < data.resetTime`
cleanupInverted(store, t) ==
    [x \in {k \in DOMAIN store : ~(t < store[k].resetTime)} |-> store[x]]

cleanup(store, t) ==
    [x \in {k \in DOMAIN store : ~(t >= store[k].resetTime)} |-> store[x]]

\* ------------------------------------------------- the Express server
\* a header, query parameter or body field that is missing or empty: `||`
\* passes over it
NoId == ""

OrElse(a, b) == IF a # NoId THEN a ELSE b

\* mutant: `req.body?.userId` left out
middlewareUserIdNoBody(q) == OrElse(q.header, OrElse(q.query, "anonymous"))

\* createRateLimiterMiddleware: header > query > body > 'anonymous'
middlewareUserId(q) == OrElse(q.header, OrElse(q.query, OrElse(q.body, "anonymous")))

\* app.get('/api/data') and app.get('/api/rate-limit-status')
getUserId(q) == OrElse(q.header, OrElse(q.query, "anonymous"))

\* app.post('/api/data')
postUserId(q) == OrElse(q.header, OrElse(q.body, "anonymous"))

ReqIds == 1..NumReqs

DataRoutes == {"GET /api/data", "POST /api/data"}

\* the concurrent runs: every request is for the same key, sent as
\* `X-User-ID: user-a` to GET /api/data; <<header, query, body>>
ParallelRoutes == {"GET /api/data"}
ParallelShapes == {<<"user-a", NoId, NoId>>}

\* pc: "new" (not sent yet), "middleware", "handler", "done"
\* code: the HTTP status sent, 0 while none is; limit, remaining, reset: the
\* X-RateLimit-* headers (the reset time in ms; toISOString keeps the ms)
NewReq ==
    [pc |-> "new", route |-> "-", header |-> NoId, query |-> NoId, body |-> NoId,
     key |-> NoId, code |-> 0, limit |-> 0, remaining |-> 0, reset |-> 0]

\* a JSON body: the request it answers (0: a status query), the status code,
\* and its userId, remaining and resetTime fields
NoResp == [id |-> 0, code |-> 0, userId |-> NoId, remaining |-> 0, resetTime |-> 0]

\* no request is being served
NoExch == [route |-> "-"]

\* ------------------------------------------------------------ history
NoOp == [op |-> "none", key |-> "-", at |-> 0, pre |-> EmptyMap,
         allowed |-> TRUE, remaining |-> 0, resetTime |-> 0, afterReset |-> "no"]

Op(o, k, res, after) ==
    [op |-> o, key |-> k, at |-> now, pre |-> userRequests,
     allowed |-> res.allowed, remaining |-> res.remaining,
     resetTime |-> res.resetTime, afterReset |-> after]

NoPeriod == [end |-> 0, n |-> 0]

\* the state of a key, as section 4.2 of the design names it
KeyState(store, k, t) ==
    IF ~MapHas(store, k) THEN "absent"
    ELSE IF t >= store[k].resetTime THEN "expired"
    ELSE IF store[k].count >= maxRequests THEN "saturated"
    ELSE "active"

\* the admission times that lie in the half-open interval (t - windowMs, t]
Recent(s, t) == SelectSeq(s, LAMBDA x : x > t - windowMs)

\* ------------------------------------------------------------ actions
Init ==
    /\ maxRequests \in 1..MaxLimit
    /\ windowMs \in {w * TickMs : w \in 1..MaxWindowTicks}
    /\ userRequests = EmptyMap
    /\ now = 0
    /\ lastOp = NoOp
    /\ calls = [k \in Keys |-> 0]
    /\ adm = [k \in Keys |-> 0]
    /\ per = [k \in Keys |-> NoPeriod]
    /\ resetOf = [k \in Keys |-> "no"]
    /\ recentAdm = [k \in Keys |-> <<>>]
    /\ reqs = [r \in ReqIds |-> NewReq]
    /\ resp = NoResp
    /\ exch = NoExch
    /\ shadow = EmptyMap

CallCheckLimit(k) ==
    LET res   == checkLimit(userRequests, k, now)
        fresh == NoActive(userRequests, k, now)
        one   == IF res.allowed THEN 1 ELSE 0
    IN  /\ userRequests' = res.store
        /\ lastOp' = Op("checkLimit", k, res, resetOf[k])
        /\ resetOf' = [resetOf EXCEPT ![k] = "no"]
        /\ calls' = [calls EXCEPT ![k] =
                        IF fresh THEN 1 ELSE Min(@ + 1, maxRequests + 1)]
        /\ adm' = [adm EXCEPT ![k] =
                        IF fresh THEN one ELSE Min(@ + one, maxRequests + 1)]
        /\ per' = [per EXCEPT ![k] =
                        IF now < @.end
                        THEN [@ EXCEPT !.n = Min(@ + one, maxRequests + 1)]
                        ELSE IF res.allowed
                             THEN [end |-> res.resetTime, n |-> 1]
                             ELSE NoPeriod]
        /\ recentAdm' = [recentAdm EXCEPT ![k] =
                        IF res.allowed /\ Len(@) < 2 * maxRequests + 1
                        THEN Append(Recent(@, now), now)
                        ELSE Recent(@, now)]
        /\ UNCHANGED <<maxRequests, windowMs, now, reqs, resp, exch, shadow>>

CallGetStatus(k) ==
    LET res == getStatus(userRequests, k, now)
    IN  /\ userRequests' = res.store
        /\ lastOp' = Op("getStatus", k, res @@ [allowed |-> TRUE], "no")
        /\ UNCHANGED <<maxRequests, windowMs, now, calls, adm, per, resetOf, recentAdm, reqs, resp, exch, shadow>>

CallReset(k) ==
    /\ userRequests' = reset(userRequests, k)
    /\ lastOp' = Op("reset", k, NoOp, "no")
    /\ resetOf' = [resetOf EXCEPT ![k] = KeyState(userRequests, k, now)]
    /\ calls' = [calls EXCEPT ![k] = 0]
    /\ adm' = [adm EXCEPT ![k] = 0]
    /\ recentAdm' = [recentAdm EXCEPT ![k] = <<>>]
    /\ UNCHANGED <<maxRequests, windowMs, now, per, reqs, resp, exch, shadow>>

CallCleanup ==
    /\ userRequests' = cleanup(userRequests, now)
    /\ lastOp' = Op("cleanup", "-", NoOp, "no")
    /\ UNCHANGED <<maxRequests, windowMs, now, calls, adm, per, resetOf, recentAdm, reqs, resp, exch, shadow>>

Tick ==
    /\ now + TickMs <= MaxTicks * TickMs
    /\ now' = now + TickMs
    /\ per' = [k \in Keys |-> IF now' < per[k].end THEN per[k] ELSE NoPeriod]
    /\ recentAdm' = [k \in Keys |-> Recent(recentAdm[k], now')]
    /\ UNCHANGED <<maxRequests, windowMs, userRequests, lastOp, calls, adm, resetOf, reqs, resp, exch, shadow>>

Next ==
    \/ \E k \in Keys : CallCheckLimit(k)
    \/ \E k \in Keys : CallGetStatus(k)
    \/ \E k \in Keys : CallReset(k)
    \/ CallCleanup
    \/ Tick

Spec == Init /\ [][Next]_vars

\* ------------------------------------------- the server, step by step
\* a client sends request r to /api/data; requests are numbered in the order
\* they are sent
Arrive(r, route, shape) ==
    /\ reqs[r].pc = "new"
    /\ \A r2 \in ReqIds : r2 < r => reqs[r2].pc # "new"
    /\ reqs' = [reqs EXCEPT ![r] =
                   [NewReq EXCEPT !.pc = "middleware",
                                  !.route = route,
                                  !.header = shape[1],
                                  !.query = shape[2],
                                  !.body = shape[3]]]
    /\ UNCHANGED <<maxRequests, windowMs, userRequests, now, hist, resp, exch, shadow>>

\* rateLimiterMiddleware: one synchronous run, from checkLimit to the 429
\* response or to next()
Middleware(r) ==
    LET q   == reqs[r]
        uid == middlewareUserId(q)
        res == checkLimit(userRequests, uid, now)
    IN  /\ q.pc = "middleware"
        /\ userRequests' = res.store
        /\ reqs' = [reqs EXCEPT ![r] =
                       [q EXCEPT !.key = uid,
                                 !.limit = maxRequests,
                                 !.remaining = res.remaining,
                                 !.reset = res.resetTime,
                                 !.code = IF res.allowed THEN 0 ELSE 429,
                                 !.pc = IF res.allowed THEN "handler" ELSE "done"]]
        /\ resp' = IF res.allowed THEN resp
                   ELSE [id |-> r, code |-> 429, userId |-> NoId, remaining |-> 0,
                         resetTime |-> res.resetTime]
        /\ UNCHANGED <<maxRequests, windowMs, now, hist, exch, shadow>>

\* the handlers of GET and POST /api/data
DataHandler(r) ==
    LET q   == reqs[r]
        uid == IF q.route = "GET /api/data" THEN getUserId(q) ELSE postUserId(q)
        st  == getStatus(userRequests, uid, now)
    IN  /\ q.pc = "handler"
        /\ userRequests' = st.store
        /\ reqs' = [reqs EXCEPT ![r] = [q EXCEPT !.code = 200, !.pc = "done"]]
        /\ resp' = [id |-> r, code |-> 200, userId |-> uid,
                    remaining |-> st.remaining, resetTime |-> st.resetTime]
        /\ UNCHANGED <<maxRequests, windowMs, now, hist, exch, shadow>>

\* GET /api/rate-limit-status: no middleware, one synchronous handler
StatusQuery(shape) ==
    LET q   == [header |-> shape[1], query |-> shape[2], body |-> shape[3]]
        uid == getUserId(q)
        st  == getStatus(userRequests, uid, now)
    IN  /\ userRequests' = st.store
        /\ resp' = [id |-> 0, code |-> 200, userId |-> uid,
                    remaining |-> st.remaining, resetTime |-> st.resetTime]
        /\ UNCHANGED <<maxRequests, windowMs, now, hist, reqs, exch, shadow>>

\* setInterval(() => rateLimiter.cleanup(), ...)
CleanupTimer ==
    /\ userRequests' = cleanup(userRequests, now)
    /\ UNCHANGED <<maxRequests, windowMs, now, hist, reqs, resp, exch, shadow>>

\* the clock, while requests are being served
Clock ==
    /\ now + TickMs <= MaxTicks * TickMs
    /\ now' = now + TickMs
    /\ UNCHANGED <<maxRequests, windowMs, userRequests, hist, reqs, resp, exch, shadow>>

\* requests, status queries and the cleanup timer in any interleaving of their
\* steps; no request to /api/reset-rate-limit
NextParallel ==
    \/ \E r \in ReqIds, route \in ParallelRoutes, shape \in ParallelShapes :
          Arrive(r, route, shape)
    \/ \E r \in ReqIds : Middleware(r)
    \/ \E r \in ReqIds : DataHandler(r)
    \/ \E shape \in ParallelShapes : StatusQuery(shape)
    \/ CleanupTimer
    \/ Clock

SpecParallel == Init /\ [][NextParallel]_vars

\* ------------------------------------- the server, one request at a time
\* Math.ceil(a / b) for b > 0
CeilDiv(a, b) == -((-a) \div b)

\* a response header that was not set
NoHeader == -1

\* app.post('/api/reset-rate-limit'): header > body > query, and no default
resetUserId(q) == OrElse(q.header, OrElse(q.body, q.query))

\* what a request may carry as <<X-User-ID, ?userId=, body.userId>>: nothing,
\* one of the three, or two of them that differ
Shapes ==
    {<<NoId, NoId, NoId>>,
     <<"user-a", NoId, NoId>>, <<"user-b", NoId, NoId>>,
     <<NoId, "user-a", NoId>>, <<NoId, NoId, "user-a">>,
     <<"user-a", "user-b", NoId>>, <<"user-a", NoId, "user-b">>,
     <<NoId, "user-a", "user-b">>}

Carried(shape) == [header |-> shape[1], query |-> shape[2], body |-> shape[3]]

\* the middleware has not run
NoMiddleware ==
    [key |-> NoId, allowed |-> TRUE, resRemaining |-> 0, resResetTime |-> 0,
     limit |-> NoHeader, remaining |-> NoHeader, reset |-> NoHeader,
     code |-> 0, retryAfter |-> 0, next |-> 0]

\* mutant: no `return` in front of res.status(429), so next() follows it
rateLimiterMiddlewareNoReturn(store, q, t1, t2) ==
    LET userId == middlewareUserId(q)
        result == checkLimit(store, userId, t1)
    IN  [store        |-> result.store,
         key          |-> userId,
         allowed      |-> result.allowed,
         resRemaining |-> result.remaining,
         resResetTime |-> result.resetTime,
         limit        |-> maxRequests,
         remaining    |-> result.remaining,
         reset        |-> result.resetTime,
         code         |-> IF result.allowed THEN 0 ELSE 429,
         retryAfter   |-> IF result.allowed THEN 0
                          ELSE CeilDiv(result.resetTime - t2, 1000),
         next         |-> 1]

\* mutant: the headers are set after the 429 branch, on the way to next()
rateLimiterMiddlewareLateHeaders(store, q, t1, t2) ==
    LET userId == middlewareUserId(q)
        result == checkLimit(store, userId, t1)
    IN  [store        |-> result.store,
         key          |-> userId,
         allowed      |-> result.allowed,
         resRemaining |-> result.remaining,
         resResetTime |-> result.resetTime,
         limit        |-> IF result.allowed THEN maxRequests ELSE NoHeader,
         remaining    |-> IF result.allowed THEN result.remaining ELSE NoHeader,
         reset        |-> IF result.allowed THEN result.resetTime ELSE NoHeader,
         code         |-> IF result.allowed THEN 0 ELSE 429,
         retryAfter   |-> IF result.allowed THEN 0
                          ELSE CeilDiv(result.resetTime - t2, 1000),
         next         |-> IF result.allowed THEN 1 ELSE 0]

\* the function createRateLimiterMiddleware returns, run on request q:
\* checkLimit reads the clock at t1, the retryAfter expression at t2.
\* limit, remaining, reset: the X-RateLimit-* headers (the reset time in ms);
\* code: the status it sends, 0 when it sends nothing; next: calls of next()
rateLimiterMiddleware(store, q, t1, t2) ==
    LET userId == middlewareUserId(q)
        result == checkLimit(store, userId, t1)
    IN  [store        |-> result.store,
         key          |-> userId,
         allowed      |-> result.allowed,
         resRemaining |-> result.remaining,
         resResetTime |-> result.resetTime,
         limit        |-> maxRequests,
         remaining    |-> result.remaining,
         reset        |-> result.resetTime,
         code         |-> IF result.allowed THEN 0 ELSE 429,
         retryAfter   |-> IF result.allowed THEN 0
                          ELSE CeilDiv(result.resetTime - t2, 1000),
         next         |-> IF result.allowed THEN 1 ELSE 0]

\* no handler has run
NoHandler == [code |-> 0, userId |-> NoId, remaining |-> 0, resetTime |-> 0, secs |-> 0]

\* the handlers of GET and POST /api/data, run at t
dataHandler(store, route, q, t) ==
    LET userId == IF route = "GET /api/data" THEN getUserId(q) ELSE postUserId(q)
        status == getStatus(store, userId, t)
    IN  [store     |-> status.store,
         code      |-> 200,
         userId    |-> userId,
         remaining |-> status.remaining,
         resetTime |-> status.resetTime,
         secs      |-> 0]

\* the handler of GET /api/rate-limit-status: getStatus reads the clock at t1,
\* the resetInSeconds expression at t2
statusHandler(store, q, t1, t2) ==
    LET userId == getUserId(q)
        status == getStatus(store, userId, t1)
    IN  [store     |-> status.store,
         code      |-> 200,
         userId    |-> userId,
         remaining |-> status.remaining,
         resetTime |-> status.resetTime,
         secs      |-> CeilDiv(status.resetTime - t2, 1000)]

\* mutant: the reset route falls back on 'anonymous' as the other routes do
resetHandlerAnonymous(store, q) ==
    LET userId == OrElse(resetUserId(q), "anonymous")
    IN  [store |-> reset(store, userId), code |-> 200, userId |-> userId,
         remaining |-> 0, resetTime |-> 0, secs |-> 0]

\* the handler of POST /api/reset-rate-limit
resetHandler(store, q) ==
    LET userId == resetUserId(q)
    IN  IF userId = NoId
        THEN [store |-> store, code |-> 400, userId |-> NoId,
              remaining |-> 0, resetTime |-> 0, secs |-> 0]
        ELSE [store |-> reset(store, userId), code |-> 200, userId |-> userId,
              remaining |-> 0, resetTime |-> 0, secs |-> 0]

Without(rec, f) == [x \in (DOMAIN rec) \ {f} |-> rec[x]]

\* the clock readings a request can see after its first one
Later(t) == {t + d * TickMs : d \in 0..(MaxTicks - t \div TickMs)}

\* GET or POST /api/data, middleware and handler in one synchronous run; the
\* second reading of the clock is the one of the retryAfter expression when
\* the request is refused, the one of the handler's getStatus otherwise
ServeData(route, shape) ==
    \E t2 \in Later(now) :
        LET q  == Carried(shape)
            mw == rateLimiterMiddleware(userRequests, q, now, t2)
            h  == dataHandler(mw.store, route, q, t2)
        IN  /\ exch = NoExch
            /\ userRequests' = IF mw.next > 0 THEN h.store ELSE mw.store
            /\ now' = t2
            /\ exch' = [route |-> route, q |-> q, at |-> now, pre |-> userRequests,
                        post |-> userRequests',
                        mw |-> Without(mw, "store"),
                        runs |-> mw.next,
                        sent |-> (IF mw.code # 0 THEN 1 ELSE 0) + mw.next,
                        out |-> IF mw.next > 0 THEN Without(h, "store") ELSE NoHandler]
            /\ UNCHANGED <<maxRequests, windowMs, hist, reqs, resp, shadow>>

ServeStatus(shape) ==
    \E t2 \in Later(now) :
        LET q == Carried(shape)
            h == statusHandler(userRequests, q, now, t2)
        IN  /\ exch = NoExch
            /\ userRequests' = h.store
            /\ now' = t2
            /\ exch' = [route |-> "GET /api/rate-limit-status", q |-> q, at |-> now,
                        pre |-> userRequests, post |-> userRequests', mw |-> NoMiddleware, runs |-> 1,
                        sent |-> 1, out |-> Without(h, "store")]
            /\ UNCHANGED <<maxRequests, windowMs, hist, reqs, resp, shadow>>

ServeReset(shape) ==
    LET q == Carried(shape)
        h == resetHandler(userRequests, q)
    IN  /\ exch = NoExch
        /\ userRequests' = h.store
        /\ exch' = [route |-> "POST /api/reset-rate-limit", q |-> q, at |-> now,
                    pre |-> userRequests, post |-> userRequests', mw |-> NoMiddleware, runs |-> 1,
                    sent |-> 1, out |-> Without(h, "store")]
        /\ UNCHANGED <<maxRequests, windowMs, now, hist, reqs, resp, shadow>>

\* the response has gone out and the request is over
Finish ==
    /\ exch # NoExch
    /\ exch' = NoExch
    /\ UNCHANGED <<maxRequests, windowMs, userRequests, now, hist, reqs, resp, shadow>>

\* the timer's callback runs between two requests, never inside one
ServerCleanup ==
    /\ exch = NoExch
    /\ CleanupTimer

\* time passes between two requests
ServerClock ==
    /\ exch = NoExch
    /\ Clock

\* requests come one after the other; each is served in one synchronous run,
\* as Express runs middleware and handler
NextServer ==
    \/ \E route \in DataRoutes, shape \in Shapes : ServeData(route, shape)
    \/ \E shape \in Shapes : ServeStatus(shape)
    \/ \E shape \in Shapes : ServeReset(shape)
    \/ Finish
    \/ ServerCleanup
    \/ ServerClock

SpecServer == Init /\ [][NextServer]_vars

\* ------------------------------------- traffic without reset, and its times
\* the admission times that lie in the closed interval [t - windowMs, t]
RecentClosed(s, t) == SelectSeq(s, LAMBDA x : x >= t - windowMs)

\* checkLimit(k); recentAdm[k] keeps the times of the allowed calls of the
\* last windowMs, both ends included
BurstCheckLimit(k) ==
    LET res  == checkLimit(userRequests, k, now)
        kept == RecentClosed(recentAdm[k], now)
    IN  /\ userRequests' = res.store
        /\ recentAdm' = [recentAdm EXCEPT ![k] =
                            IF res.allowed /\ Len(kept) < 2 * maxRequests + 1
                            THEN Append(kept, now)
                            ELSE kept]
        /\ UNCHANGED <<maxRequests, windowMs, now, lastOp, calls, adm, per, resetOf,
                       reqs, resp, exch, shadow>>

BurstGetStatus(k) ==
    /\ userRequests' = getStatus(userRequests, k, now).store
    /\ UNCHANGED <<maxRequests, windowMs, now, hist, reqs, resp, exch, shadow>>

\* checkLimit, getStatus, the cleanup timer and the clock; reset is never called
NextBurst ==
    \/ \E k \in Keys : BurstCheckLimit(k)
    \/ \E k \in Keys : BurstGetStatus(k)
    \/ CleanupTimer
    \/ Clock

SpecBurst == Init /\ [][NextBurst]_vars

\* --------------------------- the store with and without the cleanup timer
\* the calls are made on userRequests, which the cleanup timer sweeps, and
\* repeated on shadow, which nothing sweeps
EvictCheckLimit(k) ==
    LET res == checkLimit(userRequests, k, now)
    IN  /\ userRequests' = res.store
        /\ shadow' = checkLimit(shadow, k, now).store
        /\ lastOp' = Op("checkLimit", k, res, "no")
        /\ UNCHANGED <<maxRequests, windowMs, now, calls, adm, per, resetOf, recentAdm,
                       reqs, resp, exch>>

EvictGetStatus(k) ==
    LET res == getStatus(userRequests, k, now)
    IN  /\ userRequests' = res.store
        /\ shadow' = getStatus(shadow, k, now).store
        /\ lastOp' = Op("getStatus", k, res @@ [allowed |-> TRUE], "no")
        /\ UNCHANGED <<maxRequests, windowMs, now, calls, adm, per, resetOf, recentAdm,
                       reqs, resp, exch>>

EvictReset(k) ==
    /\ userRequests' = reset(userRequests, k)
    /\ shadow' = reset(shadow, k)
    /\ lastOp' = Op("reset", k, NoOp, "no")
    /\ UNCHANGED <<maxRequests, windowMs, now, calls, adm, per, resetOf, recentAdm,
                   reqs, resp, exch>>

\* the timer fires between two calls
EvictCleanup ==
    /\ userRequests' = cleanup(userRequests, now)
    /\ lastOp' = Op("cleanup", "-", NoOp, "no")
    /\ UNCHANGED <<maxRequests, windowMs, now, calls, adm, per, resetOf, recentAdm,
                   reqs, resp, exch, shadow>>

NextEvict ==
    \/ \E k \in Keys : EvictCheckLimit(k)
    \/ \E k \in Keys : EvictGetStatus(k)
    \/ \E k \in Keys : EvictReset(k)
    \/ EvictCleanup
    \/ Clock

SpecEvict == Init /\ [][NextEvict]_vars

\* setInterval calls cleanup() again and again, whatever the requests do
SpecEvictFair == SpecEvict /\ WF_vars(EvictCleanup)

\* ------------------------------------------------------------- claims
IsCheck == lastOp.op = "checkLimit"

\* the record of the key of the last call, before and after the call
PreRec == lastOp.pre[lastOp.key]
PostRec == userRequests[lastOp.key]

FreshResult ==
    /\ lastOp.allowed
    /\ lastOp.remaining = maxRequests - 1
    /\ lastOp.resetTime = lastOp.at + windowMs
    /\ MapHas(userRequests, lastOp.key)
    /\ PostRec = [count |-> 1, resetTime |-> lastOp.at + windowMs]

\* C1, as stated: in the period from the creation of a record of k until its
\* windowEnd at most maxRequests calls of checkLimit(k) are allowed (so that a
\* call is rejected once maxRequests calls of the period were allowed).
\* per[k] follows the earliest such period still open, whatever reset() does
\* in it.
C1_PeriodAtMostMax ==
    \A k \in Keys : per[k].n <= maxRequests

\* C1, amended: for every record of k, from its creation until its windowEnd
\* or until reset(k) removes it, at most maxRequests calls of checkLimit(k) are
\* allowed, and every call after the maxRequests-th in that span is rejected.
C1_RecordAtMostMax ==
    \A k \in Keys :
        /\ adm[k] <= maxRequests
        /\ (IsCheck /\ lastOp.key = k /\ calls[k] = maxRequests + 1) => ~lastOp.allowed

C1_Witness ==
    /\ IsCheck
    /\ maxRequests = MaxLimit
    /\ calls[lastOp.key] = maxRequests + 1
    /\ adm[lastOp.key] = maxRequests
    /\ ~lastOp.allowed

\* C2: sliding window: in every interval of length windowMs at most
\* maxRequests calls of checkLimit(k) are allowed, when k is not reset.
C2_SlidingWindow ==
    \A k \in Keys : Len(recentAdm[k]) <= maxRequests

\* C4: the i-th call of checkLimit(k) counted from a key with no active record
\* returns allowed with remaining = maxRequests - i for i <= maxRequests, and
\* rejected with remaining = 0 after that.
C4_Countdown ==
    IsCheck =>
        LET i == calls[lastOp.key]
        IN  IF i <= maxRequests
            THEN lastOp.allowed /\ lastOp.remaining = maxRequests - i
            ELSE ~lastOp.allowed /\ lastOp.remaining = 0

C4_Witness ==
    /\ IsCheck
    /\ maxRequests = MaxLimit
    /\ calls[lastOp.key] = maxRequests
    /\ lastOp.allowed
    /\ lastOp.remaining = 0

\* C5: a checkLimit(k) made when now >= resetTime of k's record is allowed,
\* returns remaining = maxRequests - 1 and replaces the record by
\* {count: 1, resetTime: now + windowMs}, whatever the old count was.
C5_ExpiredStartsFresh ==
    (IsCheck /\ MapHas(lastOp.pre, lastOp.key) /\ lastOp.at >= PreRec.resetTime)
        => FreshResult

C5_Witness ==
    /\ IsCheck
    /\ MapHas(lastOp.pre, lastOp.key)
    /\ lastOp.at = PreRec.resetTime
    /\ maxRequests = MaxLimit
    /\ PreRec.count = maxRequests
    /\ FreshResult

\* C6: the first checkLimit(k) after reset(k) returns what it returns for a key
\* never seen: allowed, remaining = maxRequests - 1, resetTime = now + windowMs,
\* whatever state reset(k) found k in.
C6_ResetThenFresh ==
    (IsCheck /\ lastOp.afterReset # "no") => FreshResult

C6_Witness ==
    /\ IsCheck
    /\ lastOp.afterReset = "saturated"
    /\ maxRequests = MaxLimit
    /\ lastOp.at > 0
    /\ FreshResult

\* C7: getStatus(k) leaves the whole Map as it was, so every checkLimit made
\* after it returns what it would have returned without it.
C7_StatusReadOnly ==
    lastOp.op = "getStatus" =>
        /\ userRequests = lastOp.pre
        /\ \A k \in Keys :
               checkLimit(userRequests, k, now) = checkLimit(lastOp.pre, k, now)

C7_Witness ==
    /\ lastOp.op = "getStatus"
    /\ MapHas(lastOp.pre, lastOp.key)
    /\ lastOp.at >= PreRec.resetTime
    /\ lastOp.remaining = maxRequests
    /\ userRequests = lastOp.pre

\* C8: checkLimit, getStatus and reset of a key leave the entry of every
\* other key as it was.
C8_OtherKeysUntouched ==
    lastOp.op \in {"checkLimit", "getStatus", "reset"} =>
        \A b \in Keys \ {lastOp.key} :
            /\ MapHas(userRequests, b) <=> MapHas(lastOp.pre, b)
            /\ MapHas(userRequests, b) => userRequests[b] = lastOp.pre[b]

C8_Witness ==
    /\ lastOp.op = "reset"
    /\ MapHas(lastOp.pre, lastOp.key)
    /\ \E b \in Keys \ {lastOp.key} :
           /\ MapHas(userRequests, b)
           /\ now < userRequests[b].resetTime
           /\ userRequests[b].count = 1
           /\ maxRequests > 1

\* C9: a rejected checkLimit leaves the Map as it was and returns the
\* resetTime of the record it found.
C9_RejectedNoEffect ==
    (IsCheck /\ ~lastOp.allowed) =>
        /\ userRequests = lastOp.pre
        /\ MapHas(lastOp.pre, lastOp.key)
        /\ lastOp.resetTime = PreRec.resetTime
        /\ lastOp.remaining = 0

C9_Witness ==
    /\ IsCheck
    /\ ~lastOp.allowed
    /\ lastOp.at + windowMs > lastOp.resetTime
    /\ userRequests = lastOp.pre

\* C10: checkLimit(k) rejects exactly when k has a record with
\* now < resetTime and count = maxRequests.
C10_RejectsIffSaturated ==
    IsCheck =>
        (~lastOp.allowed <=>
            /\ MapHas(lastOp.pre, lastOp.key)
            /\ lastOp.at < PreRec.resetTime
            /\ PreRec.count = maxRequests)

C10_Witness ==
    /\ IsCheck
    /\ lastOp.allowed
    /\ MapHas(lastOp.pre, lastOp.key)
    /\ lastOp.at >= PreRec.resetTime
    /\ PreRec.count = maxRequests
    /\ lastOp.afterReset = "no"

\* C11, as stated: a saturated key stays saturated until its windowEnd has
\* passed, whatever operation runs.
C11_SaturatedUntilExpiry ==
    [][\A k \in Keys :
          KeyState(userRequests, k, now) = "saturated"
              => \/ KeyState(userRequests', k, now') = "saturated"
                 \/ now' >= userRequests[k].resetTime]_vars

\* C11, amended: a saturated key stays saturated until its windowEnd has
\* passed or reset(k) removes its record; checkLimit, getStatus, cleanup and
\* the operations on other keys leave it saturated, with count and resetTime
\* as they were.
C11_SaturatedUntilExpiryOrReset ==
    [][\A k \in Keys :
          KeyState(userRequests, k, now) = "saturated"
              => \/ /\ KeyState(userRequests', k, now') = "saturated"
                    /\ userRequests'[k] = userRequests[k]
                 \/ now' >= userRequests[k].resetTime
                 \/ /\ lastOp'.op = "reset"
                    /\ lastOp'.key = k
                    /\ ~MapHas(userRequests', k)]_vars

\* a saturated key was refused, and cleanup() then ran inside its window
C11_Witness ==
    /\ lastOp.op = "cleanup"
    /\ maxRequests = MaxLimit
    /\ \E k \in Keys :
           /\ KeyState(lastOp.pre, k, lastOp.at) = "saturated"
           /\ KeyState(userRequests, k, now) = "saturated"
           /\ calls[k] = maxRequests + 1
           /\ now > 0

\* C12: cleanup() removes exactly the records with resetTime <= now: each of
\* them is gone, each record with now < resetTime is kept as it was, and no
\* key is added.
C12_EvictsExactlyExpired ==
    lastOp.op = "cleanup" =>
        /\ DOMAIN userRequests \subseteq DOMAIN lastOp.pre
        /\ \A k \in DOMAIN lastOp.pre :
               IF lastOp.pre[k].resetTime <= lastOp.at
               THEN ~MapHas(userRequests, k)
               ELSE MapHas(userRequests, k) /\ userRequests[k] = lastOp.pre[k]

\* one record expired at this very instant, another still has time left
C12_Witness ==
    /\ lastOp.op = "cleanup"
    /\ \E k1, k2 \in DOMAIN lastOp.pre :
           /\ lastOp.pre[k1].resetTime = lastOp.at
           /\ lastOp.pre[k2].resetTime > lastOp.at
           /\ ~MapHas(userRequests, k1)
           /\ MapHas(userRequests, k2)

\* what a caller sees of checkLimit and getStatus
Returned(res) == [x \in (DOMAIN res) \ {"store"} |-> res[x]]

\* C13: with cleanup() run at any point between the calls of checkLimit,
\* getStatus and reset, a record with now < resetTime is never missing (one
\* just created included), a key gets a record only from checkLimit, which
\* creates it anew, and every call of checkLimit and getStatus returns what
\* it returns in the run without cleanup().
C13_EvictionTransparent ==
    /\ [](/\ \A k \in DOMAIN shadow :
               now < shadow[k].resetTime
                   => MapHas(userRequests, k) /\ userRequests[k] = shadow[k]
          /\ \A k \in DOMAIN userRequests :
               MapHas(shadow, k) /\ shadow[k] = userRequests[k]
          /\ \A k \in Keys :
               /\ Returned(checkLimit(userRequests, k, now))
                      = Returned(checkLimit(shadow, k, now))
               /\ Returned(getStatus(userRequests, k, now))
                      = Returned(getStatus(shadow, k, now)))
    /\ [][\A k \in Keys :
              (~MapHas(userRequests, k) /\ MapHas(userRequests', k))
                  => /\ lastOp'.op = "checkLimit"
                     /\ lastOp'.key = k
                     /\ userRequests'[k] = [count |-> 1, resetTime |-> now + windowMs]]_vars

\* cleanup() ran at an instant at which one key had an expired record, now
\* gone, and another a record created at that instant, still there
C13_Witness ==
    /\ lastOp.op = "cleanup"
    /\ lastOp.at = now
    /\ now > 0
    /\ \E k1, k2 \in Keys :
           /\ MapHas(lastOp.pre, k1)
           /\ ~MapHas(userRequests, k1)
           /\ MapHas(shadow, k1)
           /\ MapHas(userRequests, k2)
           /\ userRequests[k2] = [count |-> 1, resetTime |-> now + windowMs]

\* k has a record whose window is over
Expired(k) == MapHas(userRequests, k) /\ now >= userRequests[k].resetTime

\* C27: with the cleanup timer firing for ever, a record whose window is over
\* is in the end removed or replaced by a record with now < resetTime,
\* whatever calls are made; and cleanup() leaves only records whose resetTime
\* is later than the instant at which it ran.
C27_ExpiredEventuallyGone ==
    /\ \A k \in Keys : Expired(k) ~> ~Expired(k)
    /\ [](lastOp.op = "cleanup" =>
              \A k \in DOMAIN userRequests : lastOp.at < userRequests[k].resetTime)

\* the timer found a record that had been over for some time and removed it,
\* and left the open one
C27_Witness ==
    /\ lastOp.op = "cleanup"
    /\ \E k1, k2 \in Keys :
           /\ MapHas(lastOp.pre, k1)
           /\ lastOp.pre[k1].resetTime < lastOp.at
           /\ ~MapHas(userRequests, k1)
           /\ MapHas(userRequests, k2)
           /\ lastOp.at < userRequests[k2].resetTime
           /\ userRequests[k2].count = maxRequests

\* C20: reset(k) of a key without a record leaves the Map as it was, and a
\* second reset(k) changes nothing that the first has not.
C20_ResetIdempotent ==
    lastOp.op = "reset" =>
        /\ ~MapHas(userRequests, lastOp.key)
        /\ ~MapHas(lastOp.pre, lastOp.key) => userRequests = lastOp.pre
        /\ reset(userRequests, lastOp.key) = userRequests

\* k was admitted, reset inside its window and reset again, while another key
\* has a record
C20_Witness ==
    /\ lastOp.op = "reset"
    /\ ~MapHas(lastOp.pre, lastOp.key)
    /\ per[lastOp.key].n > 0
    /\ now < per[lastOp.key].end
    /\ userRequests = lastOp.pre
    /\ userRequests # EmptyMap

\* C21: every stored record has 0 <= count <= maxRequests, and every
\* remaining that checkLimit or getStatus returns lies in 0..maxRequests.
C21_CountAndRemainingBounded ==
    /\ \A k \in DOMAIN userRequests :
           userRequests[k].count >= 0 /\ userRequests[k].count <= maxRequests
    /\ lastOp.op \in {"checkLimit", "getStatus"} =>
           lastOp.remaining >= 0 /\ lastOp.remaining <= maxRequests

\* both ends of the range: a saturated record next to a call that returned the
\* whole quota
C21_Witness ==
    /\ lastOp.op = "getStatus"
    /\ lastOp.remaining = maxRequests
    /\ maxRequests = MaxLimit
    /\ \E k \in DOMAIN userRequests :
           /\ userRequests[k].count = maxRequests
           /\ calls[k] = maxRequests + 1

\* C22: getStatus(k) returns remaining = maxRequests and resetTime = now +
\* windowMs when k has no record or an expired one, and remaining =
\* maxRequests - count with the record's resetTime otherwise; called at the
\* clock value of a checkLimit(k) just made, it returns the remaining and
\* resetTime which that checkLimit returned.
C22_StatusValues ==
    /\ lastOp.op = "getStatus" =>
           IF MapHas(lastOp.pre, lastOp.key) /\ lastOp.at < PreRec.resetTime
           THEN /\ lastOp.remaining = maxRequests - PreRec.count
                /\ lastOp.resetTime = PreRec.resetTime
           ELSE /\ lastOp.remaining = maxRequests
                /\ lastOp.resetTime = lastOp.at + windowMs
    /\ (IsCheck /\ lastOp.at = now) =>
           /\ getStatus(userRequests, lastOp.key, now).remaining = lastOp.remaining
           /\ getStatus(userRequests, lastOp.key, now).resetTime = lastOp.resetTime

\* getStatus of a record that is part used, some time after it was created
C22_Witness ==
    /\ lastOp.op = "getStatus"
    /\ MapHas(lastOp.pre, lastOp.key)
    /\ lastOp.at < PreRec.resetTime
    /\ lastOp.at + windowMs > PreRec.resetTime
    /\ PreRec.count = 1
    /\ lastOp.remaining = MaxLimit - 1
    /\ lastOp.remaining > 0

\* C23: checkLimit, getStatus and cleanup treat a record as absent exactly
\* when now >= resetTime: from that instant on, and not before, checkLimit
\* starts a record with count 1, getStatus returns the whole quota and
\* cleanup removes the record.
C23_SameExpiry ==
    /\ (IsCheck /\ MapHas(lastOp.pre, lastOp.key)) =>
           ((lastOp.at >= PreRec.resetTime)
               <=> (lastOp.allowed /\ PostRec.count = 1
                                  /\ PostRec.resetTime = lastOp.at + windowMs))
    /\ (lastOp.op = "getStatus" /\ MapHas(lastOp.pre, lastOp.key)) =>
           ((lastOp.at >= PreRec.resetTime) <=> (lastOp.remaining = maxRequests))
    /\ lastOp.op = "cleanup" =>
           \A k \in DOMAIN lastOp.pre :
               (lastOp.at >= lastOp.pre[k].resetTime) <=> ~MapHas(userRequests, k)

\* getStatus at the very instant at which a saturated record expires
C23_Witness ==
    /\ lastOp.op = "getStatus"
    /\ MapHas(lastOp.pre, lastOp.key)
    /\ lastOp.at = PreRec.resetTime
    /\ PreRec.count = maxRequests
    /\ lastOp.remaining = maxRequests
    /\ maxRequests = MaxLimit

C25_WindowEndFixed ==
    (/\ lastOp.op \in {"checkLimit", "getStatus"}
     /\ MapHas(lastOp.pre, lastOp.key)
     /\ lastOp.at < PreRec.resetTime)
        => /\ lastOp.resetTime = PreRec.resetTime
           /\ MapHas(userRequests, lastOp.key)
           /\ PostRec.resetTime = PreRec.resetTime

\* an admitted call some time after the record was created
C25_Witness ==
    /\ IsCheck
    /\ lastOp.allowed
    /\ MapHas(lastOp.pre, lastOp.key)
    /\ lastOp.at < PreRec.resetTime
    /\ lastOp.at + windowMs > PreRec.resetTime
    /\ PostRec.count = PreRec.count + 1
    /\ PostRec.resetTime = PreRec.resetTime

\* ------------------------------------------ claims about the server
IsData == exch.route \in DataRoutes

IsStatus == exch.route = "GET /api/rate-limit-status"

IsReset == exch.route = "POST /api/reset-rate-limit"

NoIdentity(q) == q.header = NoId /\ q.query = NoId /\ q.body = NoId

\* header > query parameter > body field > "anonymous"
Precedence(q) ==
    IF q.header # NoId THEN q.header
    ELSE IF q.query # NoId THEN q.query
    ELSE IF q.body # NoId THEN q.body
    ELSE "anonymous"

\* every key but k has in store b the record, or none, that it has in store a
SameButFor(a, b, k) ==
    /\ (DOMAIN a) \ {k} = (DOMAIN b) \ {k}
    /\ \A x \in (DOMAIN a) \ {k} : a[x] = b[x]

\* C14: a request that checkLimit refuses is answered 429 by the middleware
\* and its handler does not run; a request that checkLimit allows gets no
\* response from the middleware and its handler runs once, so that each
\* request gets one response.
C14_RejectedNeverReachesHandler ==
    IsData =>
        IF exch.mw.allowed
        THEN /\ exch.mw.code = 0
             /\ exch.runs = 1
             /\ exch.out.code = 200
             /\ exch.sent = 1
        ELSE /\ exch.mw.code = 429
             /\ exch.runs = 0
             /\ exch.out = NoHandler
             /\ exch.sent = 1

C14_Witness ==
    /\ IsData
    /\ maxRequests = MaxLimit
    /\ ~exch.mw.allowed
    /\ exch.mw.code = 429
    /\ exch.runs = 0

\* C15: every request to /api/data, allowed or refused, has X-RateLimit-Limit
\* = maxRequests, X-RateLimit-Remaining = the remaining that its checkLimit
\* returned and X-RateLimit-Reset = the resetTime that its checkLimit returned,
\* which are those of the record of its key as its checkLimit left it.
C15_HeadersAlways ==
    IsData =>
        /\ exch.mw.limit = maxRequests
        /\ exch.mw.remaining = exch.mw.resRemaining
        /\ exch.mw.reset = exch.mw.resResetTime
        /\ MapHas(exch.post, exch.mw.key)
        /\ exch.mw.reset = exch.post[exch.mw.key].resetTime
        /\ exch.mw.remaining =
               IF exch.mw.allowed THEN maxRequests - exch.post[exch.mw.key].count ELSE 0

C15_Witness ==
    /\ IsData
    /\ ~exch.mw.allowed
    /\ exch.mw.limit = MaxLimit
    /\ exch.mw.remaining = 0
    /\ exch.mw.reset > exch.at
    /\ exch.at > 0

Max0(x) == IF x < 0 THEN 0 ELSE x

\* C16: retryAfter of a 429 body and resetInSeconds of a status response are
\* ceil((resetTime - now) / 1000) floored at 0, now being the clock when the
\* value is computed, so neither is ever negative.
C16_SecondsNeverNegative ==
    /\ (IsData /\ exch.mw.code = 429) =>
           /\ exch.mw.retryAfter = Max0(CeilDiv(exch.mw.resResetTime - now, 1000))
           /\ exch.mw.retryAfter >= 0
    /\ IsStatus =>
           /\ exch.out.secs = Max0(CeilDiv(exch.out.resetTime - now, 1000))
           /\ exch.out.secs >= 0

\* C17: every route resolves a request to the key of the precedence header >
\* query > body > "anonymous": the userId of the body of a 200 response and
\* the key that reset() is called with are that key, and so is the key that
\* the middleware charged.
C17_UniformIdentity ==
    /\ IsData => exch.mw.key = Precedence(exch.q)
    /\ (IsData /\ exch.runs > 0) => exch.out.userId = exch.mw.key
    /\ ((IsStatus \/ IsReset) /\ exch.out.code = 200)
           => exch.out.userId = Precedence(exch.q)

\* C18: the middleware charges the key of the header if there is one, else of
\* the query parameter, else of the body field, else "anonymous": that key's
\* record is the one checkLimit counts in, and no other record changes.
C18_MiddlewareCharges ==
    IsData =>
        LET k == Precedence(exch.q)
        IN  /\ exch.mw.key = k
            /\ NoIdentity(exch.q) => k = "anonymous"
            /\ SameButFor(exch.pre, exch.post, k)
            /\ MapHas(exch.post, k)
            /\ IF ~exch.mw.allowed THEN exch.post = exch.pre
               ELSE IF NoActive(exch.pre, k, exch.at)
               THEN exch.post[k] = [count |-> 1, resetTime |-> exch.at + windowMs]
               ELSE exch.post[k] = [count     |-> exch.pre[k].count + 1,
                                    resetTime |-> exch.pre[k].resetTime]

\* a second request without identity is counted with the first, while a
\* request that named itself in the body alone was counted under its own key
C18_Witness ==
    /\ IsData
    /\ NoIdentity(exch.q)
    /\ exch.mw.key = "anonymous"
    /\ MapHas(exch.pre, "anonymous")
    /\ exch.at < exch.pre["anonymous"].resetTime
    /\ exch.pre["anonymous"].count = 1
    /\ exch.post["anonymous"].count = 2
    /\ MapHas(exch.post, "user-a")

\* C19: a reset request that carries no identity is answered 400 and leaves
\* the Map as it was; one that carries an identity is answered 200 and removes
\* the record of the key it resolves to, and of no other.
C19_ResetNeedsIdentity ==
    IsReset =>
        IF NoIdentity(exch.q)
        THEN /\ exch.out.code = 400
             /\ exch.post = exch.pre
        ELSE /\ exch.out.code = 200
             /\ exch.out.userId \in {exch.q.header, exch.q.query, exch.q.body} \ {NoId}
             /\ ~MapHas(exch.post, exch.out.userId)
             /\ SameButFor(exch.pre, exch.post, exch.out.userId)

\* a reset without identity, while "anonymous" has an open window
C19_Witness ==
    /\ IsReset
    /\ NoIdentity(exch.q)
    /\ exch.out.code = 400
    /\ MapHas(exch.post, "anonymous")
    /\ now < exch.post["anonymous"].resetTime
    /\ MapHas(exch.post, "user-a")

\* C26: while a key keeps a record with the same resetTime, no request, reset
\* or run of the cleanup timer lowers its count; the count that an admitted
\* request added is still there when its handler has run.
C26_AdmissionNeverUndone ==
    /\ [][\A k \in (DOMAIN userRequests) \cap (DOMAIN userRequests') :
              userRequests'[k].resetTime = userRequests[k].resetTime
                  => userRequests'[k].count >= userRequests[k].count]_vars
    /\ []((IsData /\ exch.mw.allowed /\ exch.runs > 0) =>
              /\ MapHas(userRequests, exch.mw.key)
              /\ userRequests[exch.mw.key].resetTime = exch.mw.resResetTime
              /\ userRequests[exch.mw.key].count = maxRequests - exch.mw.resRemaining)

\* an admitted request added to the count of an open window, and its handler
\* has answered 200
C26_Witness ==
    /\ IsData
    /\ exch.mw.allowed
    /\ exch.out.code = 200
    /\ MapHas(exch.pre, exch.mw.key)
    /\ exch.at < exch.pre[exch.mw.key].resetTime
    /\ userRequests[exch.mw.key].count = exch.pre[exch.mw.key].count + 1
    /\ userRequests[exch.mw.key].count = MaxLimit

\* C28: the body of a 200 response of GET or POST /api/data has the remaining
\* and resetTime of the X-RateLimit-Remaining and X-RateLimit-Reset headers
\* of that response, and its userId is the key that the middleware charged.
C28_BodyAgreesWithHeaders ==
    (IsData /\ exch.out.code = 200) =>
        /\ exch.out.remaining = exch.mw.remaining
        /\ exch.out.resetTime = exch.mw.reset
        /\ exch.out.userId = exch.mw.key

\* the requests that the middleware passed on with next()
Admitted(r) == reqs[r].pc = "handler" \/ reqs[r].code = 200

\* C3: with requests, status queries and the cleanup timer interleaved step by
\* step and no reset, the requests of one key admitted in one window (the one
\* their X-RateLimit-Reset names) never number more than maxRequests.
C3_ParallelAtMostMax ==
    \A r \in ReqIds :
        Admitted(r) =>
            Cardinality({r2 \in ReqIds : /\ Admitted(r2)
                                         /\ reqs[r2].key = reqs[r].key
                                         /\ reqs[r2].reset = reqs[r].reset})
                <= maxRequests

\* maxRequests requests of one key are between middleware and handler at the
\* same time and a further one of that key and window was answered 429
C3_Witness ==
    /\ maxRequests = MaxLimit
    /\ \E r3 \in ReqIds :
        /\ reqs[r3].code = 429
        /\ Cardinality({r \in ReqIds : /\ reqs[r].pc = "handler"
                                       /\ reqs[r].key = reqs[r3].key
                                       /\ reqs[r].reset = reqs[r3].reset})
               = maxRequests

====
